---- MODULE Spec2Model ----
(***************************************************************************)
(* Retrieval-augmented chat backend: document ingestion into the in-memory *)
(* knowledgeBase, similarity search, composition of the seed history, the  *)
(* chat turn, and the HTTP controller around it.                           *)
(*                                                                         *)
(* The repository holds two copies of the chat service and its controller: *)
(*   build "raw"       : sendGeminiMessage returns the provider's reply    *)
(*                       and transcript as they are; the controller        *)
(*                       inspects the result (500 / 404 / 200);            *)
(*   build "formatted" : sendGeminiMessage throws on an empty reply,       *)
(*                       converts with formatPartsToMessage and drops the  *)
(*                       first three transcript entries; the controller    *)
(*                       answers 200 with whatever it gets.                *)
(* Everything up to the provider's answer is the same code in both.        *)
(*                                                                         *)
(* Numbers: embeddings are small integer vectors.  A cosine similarity is  *)
(* kept exactly, as the signed square  sgn(dot) * dot^2 / (|a|^2 * |b|^2)  *)
(* in a record [num, den] with den > 0, which orders as the cosine does.   *)
(***************************************************************************)
EXTENDS Integers, Sequences, FiniteSets, TLC

VARIABLES
    build,              \* which copy of service + controller is deployed
    files,              \* fs.readdir result of the knowledge directory
    dirReadable,        \* FALSE: fs.readdir throws
    loadPc,             \* loadAndEmbedDocuments: "loading" | "finished" | "aborted"
    fileIdx,            \* index of the next file of the for-loop
    knowledgeBase,      \* the module-level EmbeddedDocument[] store
    docEmbedCalls,      \* file names for which embedContent was called by ingestion
    pc,                 \* the request: "idle" | "embedding" | "generating" | "done"
    body,               \* req.body of the request
    userMessage,        \* sendGeminiMessage: text sent as the live turn
    kbSeen,             \* the knowledgeBase entries mapped at line 168
    similarityCalls,    \* the cosineSimilarity calls of that map and what each did
    relevantDocuments,  \* result of findRelevantDocuments
    contextString,      \* sendGeminiMessage: the context block built from them
    fullHistory,        \* seed history passed to genAI.chats.create
    queryEmbedCalls,    \* embedContent calls made for the query
    embedSaid,          \* what the query's embedContent call did
    sendCalls,          \* the messages passed to chatSession.sendMessage, in order
    providerSaid,       \* what the chat-completion call did for this request
    result,             \* how sendGeminiMessage completed
    response            \* what the controller wrote to res

vars == <<build, files, dirReadable, loadPc, fileIdx, knowledgeBase, docEmbedCalls,
          pc, body, userMessage, kbSeen, similarityCalls, relevantDocuments, contextString,
          fullHistory,
          queryEmbedCalls, embedSaid, sendCalls, providerSaid, result, response>>

loadVars == <<files, dirReadable, loadPc, fileIdx, knowledgeBase, docEmbedCalls>>
reqVars  == <<pc, body, userMessage, kbSeen, similarityCalls, relevantDocuments, contextString,
          fullHistory,
              queryEmbedCalls, embedSaid, sendCalls, providerSaid, result, response>>

(***************************************************************************)
(* Bounds of the model.                                                    *)
(***************************************************************************)
MaxHist  == 2       \* longest caller history
MaxFiles == 3       \* longest all-markdown directory listing
MaxDocs  == 4       \* largest knowledge base of a finished ingestion

(***************************************************************************)
(* Program constants.                                                      *)
(***************************************************************************)
TopN == 3           \* findRelevantDocuments(query, topN = 3)
StripCount == 3     \* formatPartsToMessage(newChatHistory).slice(3)

Builds == {"raw", "formatted"}
Roles  == {"user", "model"}
Texts  == {"", "Hi"}

\* models/chat: Message and ChatHistory
Message == [role : Roles, content : Texts]

RECURSIVE SeqsUpTo(_, _)
SeqsUpTo(S, n) ==
    IF n = 0 THEN {<<>>}
    ELSE LET shorter == SeqsUpTo(S, n - 1)
         IN  shorter \cup {Append(s, x) : s \in {t \in shorter : Len(t) = n - 1}, x \in S}

\* The caller's histories: the earlier messages are only copied by the code,
\* so they vary in role; the last message varies in role and content.
EarlierMessage == [role : Roles, content : {"Hi"}]

ChatHistory ==
    {<<>>} \cup {Append(prior, last) : prior \in SeqsUpTo(EarlierMessage, MaxHist - 1),
                                       last \in Message}

\* req.body: either it carries an array in "history", or it does not
Bodies == {[isArray |-> FALSE, history |-> <<>>]}
            \cup {[isArray |-> TRUE, history |-> h] : h \in ChatHistory}


(***************************************************************************)
(* Provider answers.  Both providers are outside the program: an answer is *)
(* an input of the step that receives it.                                  *)
(***************************************************************************)
DocVectors   == {<<1, 1, 0>>, <<1, 0, 1>>, <<1, 1>>}
QueryVectors == {<<1, 1, 0>>, <<2, 1, 0>>, <<0, 0, 0>>}

\* genAI.models.embedContent: it throws, or result.embeddings?.[0]?.values
\* is absent or empty (values = <<>>), or it is a vector
EmbedOutcomes(vectors) ==
    {[threw |-> TRUE, values |-> <<>>]}
        \cup {[threw |-> FALSE, values |-> v] : v \in vectors \cup {<<>>}}

ReplyTexts == {"", "Yo"}

\* chatSession.sendMessage + chatSession.getHistory: the call throws, or it
\* gives response.text (empty when there is none) and a transcript
ProviderOutcomes ==
    {[threw |-> TRUE, text |-> "", emptyTranscript |-> FALSE]}
        \cup {[threw |-> FALSE, text |-> t, emptyTranscript |-> FALSE] : t \in ReplyTexts}
        \cup {[threw |-> FALSE, text |-> "Yo", emptyTranscript |-> TRUE]}

(***************************************************************************)
(* Helper functions of the chat service.                                   *)
(***************************************************************************)
\* Content of the SDK: a role and a list of parts
TextContent(role, text) == [role |-> role, parts |-> <<[text |-> text]>>]

ModelInstructions(b) ==
    IF b = "raw" THEN "You are a friendly chat bot."
    ELSE "You are Brendon Luicien's personal AI assistant."

ModelAcknowledgment(b) ==
    IF b = "raw" THEN "OK, I understand. I acknowledge I will act in a friendly manner."
    ELSE "OK, I understand. I acknowledge I will act as Brendon's personal AI."

generateSystemPrompt(b) ==
    << TextContent("user", ModelInstructions(b)),
       TextContent("model", ModelAcknowledgment(b)) >>

createGeminiHistoryParts(messageHistory) ==
    [i \in 1..Len(messageHistory) |->
        TextContent(messageHistory[i].role, messageHistory[i].content)]

\* formatPartsToMessage on a string
formatReply(text) == << [role |-> "model", content |-> text] >>

\* formatPartsToMessage on one Content of a Content[]
formatContent(message) ==
    [role    |-> IF message.role \in {"user", "model"} THEN message.role ELSE "model",
     content |-> IF Len(message.parts) > 0 THEN message.parts[1].text ELSE ""]

formatPartsToMessage(messageContent) ==
    [i \in 1..Len(messageContent) |-> formatContent(messageContent[i])]

\* Array.prototype.slice(n)
SliceFrom(s, n) == SubSeq(s, n + 1, Len(s))

\* bug: slice(0, n + 1)
SliceToOneMore(s, n) == SubSeq(s, 1, IF n + 1 < Len(s) THEN n + 1 ELSE Len(s))

\* Array.prototype.slice(0, n)
SliceTo(s, n) == SubSeq(s, 1, IF n < Len(s) THEN n ELSE Len(s))

(***************************************************************************)
(* Cosine similarity.                                                      *)
(***************************************************************************)
RECURSIVE DotProduct(_, _)
DotProduct(vecA, vecB) ==
    IF Len(vecA) = 0 THEN 0
    ELSE Head(vecA) * Head(vecB) + DotProduct(Tail(vecA), Tail(vecB))

Sign(n) == IF n > 0 THEN 1 ELSE IF n < 0 THEN -1 ELSE 0

Zero == [num |-> 0, den |-> 1]

\* cosineSimilarity throws on vectors of different lengths
LengthMismatch(vecA, vecB) == Len(vecA) # Len(vecB)

\* bug: no zero-magnitude check, 0 / 0 (den = 0 stands for NaN)
cosineSimilarityUnguarded(vecA, vecB) ==
    [num |-> Sign(DotProduct(vecA, vecB)) * DotProduct(vecA, vecB) * DotProduct(vecA, vecB),
     den |-> DotProduct(vecA, vecA) * DotProduct(vecB, vecB)]

\* cosineSimilarity on vectors of the same length; sqrt(m) = 0 iff m = 0
cosineSimilarity(vecA, vecB) ==
    LET dotProduct == DotProduct(vecA, vecB)
        magnitudeA == DotProduct(vecA, vecA)
        magnitudeB == DotProduct(vecB, vecB)
    IN  IF magnitudeA = 0 \/ magnitudeB = 0 THEN Zero
        ELSE [num |-> Sign(dotProduct) * dotProduct * dotProduct,
              den |-> magnitudeA * magnitudeB]

\* a.similarity < b.similarity, a.similarity = b.similarity
Less(a, b)  == a.num * b.den < b.num * a.den
Equal(a, b) == a.num * b.den = b.num * a.den

\* bug: item.similarity >= 0.5
AtOrAboveFloor(similarity) == 4 * similarity.num >= similarity.den

\* item.similarity > 0.5, that is  sgn * cos^2 > 1/4
AboveFloor(similarity) == 4 * similarity.num > similarity.den

(***************************************************************************)
(* findRelevantDocuments after the query embedding arrived.                *)
(***************************************************************************)
\* knowledgeBase.map(doc => ({doc, similarity}))
Similarities(queryEmbedding, kb) ==
    [i \in 1..Len(kb) |->
        [doc |-> kb[i], similarity |-> cosineSimilarity(queryEmbedding, kb[i].embedding)]]

\* bug: an unstable sort, x goes before the elements it ties with
InsertBeforeTies(sorted, x) ==
    LET k == Cardinality({i \in 1..Len(sorted) : Less(x.similarity, sorted[i].similarity)})
    IN  SubSeq(sorted, 1, k) \o <<x>> \o SubSeq(sorted, k + 1, Len(sorted))

\* x goes after every element the comparator does not put behind it:
\* Array.prototype.sort is stable
InsertDescending(sorted, x) ==
    LET k == Cardinality({i \in 1..Len(sorted) : ~ Less(sorted[i].similarity, x.similarity)})
    IN  SubSeq(sorted, 1, k) \o <<x>> \o SubSeq(sorted, k + 1, Len(sorted))

\* similarities.sort((a, b) => b.similarity - a.similarity)
RECURSIVE SortDescending(_)
SortDescending(s) ==
    IF s = <<>> THEN <<>>
    ELSE InsertDescending(SortDescending(SubSeq(s, 1, Len(s) - 1)), s[Len(s)])

\* .filter(item => item.similarity > 0.5)
RECURSIVE FilterFloor(_)
FilterFloor(s) ==
    IF s = <<>> THEN <<>>
    ELSE IF AboveFloor(Head(s).similarity) THEN <<Head(s)>> \o FilterFloor(Tail(s))
    ELSE FilterFloor(Tail(s))

\* the ranked items that are returned
RankedItems(queryEmbedding, kb, topN) ==
    SliceTo(FilterFloor(SortDescending(Similarities(queryEmbedding, kb))), topN)

\* .map(item => item.doc)
RelevantDocs(queryEmbedding, kb, topN) ==
    LET items == RankedItems(queryEmbedding, kb, topN)
    IN  [i \in 1..Len(items) |-> items[i].doc]

\* bug: the empty-corpus check is missing
KnowledgeBaseNeverEmpty(kb) == FALSE

\* line 146: if (knowledgeBase.length === 0) return []
KnowledgeBaseEmpty(kb) == Len(kb) = 0

\* some cosineSimilarity call of the map throws
SimilarityThrows(queryEmbedding, kb) ==
    \E i \in 1..Len(kb) : LengthMismatch(queryEmbedding, kb[i].embedding)

\* one call cosineSimilarity(vecA, vecB): it throws or it returns a value
CosineCall(vecA, vecB) ==
    [vecA |-> vecA, vecB |-> vecB, threw |-> LengthMismatch(vecA, vecB),
     value |-> IF LengthMismatch(vecA, vecB) THEN Zero ELSE cosineSimilarity(vecA, vecB)]

\* the calls knowledgeBase.map makes, in order: the first throw ends the map
CosineCalls(queryEmbedding, kb) ==
    LET last == IF SimilarityThrows(queryEmbedding, kb)
                THEN CHOOSE i \in 1..Len(kb) :
                        /\ LengthMismatch(queryEmbedding, kb[i].embedding)
                        /\ \A j \in 1..(i - 1) :
                              ~ LengthMismatch(queryEmbedding, kb[j].embedding)
                ELSE Len(kb)
    IN  [i \in 1..last |-> CosineCall(queryEmbedding, kb[i].embedding)]


(***************************************************************************)
(* The knowledge directory.                                                *)
(***************************************************************************)
\* ext is path.extname(name); readable: fs.readFile succeeds;
\* parses: pdf(dataBuffer) / JSON.parse succeeds; text: what is read from it
MdFile(i) ==
    [name |-> "doc" \o ToString(i) \o ".md", ext |-> ".md", readable |-> TRUE,
     parses |-> TRUE, text |-> "Text " \o ToString(i)]
CorruptPdf == [name |-> "cv.pdf",    ext |-> ".pdf",  readable |-> TRUE, parses |-> FALSE, text |-> ""]
GoodPdf    == [name |-> "bio.PDF",   ext |-> ".PDF",  readable |-> TRUE, parses |-> TRUE,  text |-> "Bio"]
GoodJson   == [name |-> "data.json", ext |-> ".json", readable |-> TRUE, parses |-> TRUE,  text |-> "{\"a\":1}"]
BadJson    == [name |-> "bad.json",  ext |-> ".json", readable |-> TRUE, parses |-> FALSE, text |-> "{a"]
TxtFile    == [name |-> "notes.txt", ext |-> ".txt",  readable |-> TRUE, parses |-> TRUE,  text |-> "Notes"]
BlankMd    == [name |-> "blank.md",  ext |-> ".md",   readable |-> TRUE, parses |-> TRUE,  text |-> "  "]
DirNamedMd == [name |-> "sub.md",    ext |-> ".md",   readable |-> FALSE, parses |-> FALSE, text |-> ""]

MdDir(n) == [i \in 1..n |-> MdFile(i)]

Directories ==
    {MdDir(n) : n \in 0..MaxFiles}
        \cup { <<MdFile(1), CorruptPdf>>, <<CorruptPdf, MdFile(1)>>,
               <<GoodPdf, GoodJson>>, <<BadJson, TxtFile, BlankMd, MdFile(1)>>,
               <<DirNamedMd, MdFile(1)>> }

\* String.prototype.toLowerCase on an extension
ToLowerCase(ext) ==
    IF ext = ".PDF" THEN ".pdf" ELSE IF ext = ".MD" THEN ".md"
    ELSE IF ext = ".JSON" THEN ".json" ELSE ext

\* String.prototype.trim, as far as emptiness goes
Trim(text) == IF text \in {"", " ", "  ", "\n"} THEN "" ELSE text

\* JSON.stringify(JSON.parse(content), null, 2)
PrettyJson(content) == IF content = "{\"a\":1}" THEN "{\n  \"a\": 1\n}" ELSE content

\* bug: no try / catch around the PDF extraction
ReadContentPdfFatal(file) ==
    LET fileExtension == ToLowerCase(file.ext)
    IN  IF fileExtension = ".md" \/ fileExtension = ".json" THEN
            IF ~ file.readable THEN [how |-> "throw", content |-> ""]
            ELSE IF fileExtension = ".json" /\ file.parses
                 THEN [how |-> "content", content |-> PrettyJson(file.text)]
                 ELSE [how |-> "content", content |-> file.text]
        ELSE IF fileExtension = ".pdf" THEN
            IF file.readable /\ file.parses
            THEN [how |-> "content", content |-> file.text]
            ELSE [how |-> "throw", content |-> ""]
        ELSE [how |-> "skip", content |-> ""]

\* lines 43-70: what reading one file gives.  how: "content" | "skip" | "throw"
\* (throw: an exception that only the outer try of the function catches)
ReadContent(file) ==
    LET fileExtension == ToLowerCase(file.ext)
    IN  IF fileExtension = ".md" \/ fileExtension = ".json" THEN
            IF ~ file.readable THEN [how |-> "throw", content |-> ""]
            ELSE IF fileExtension = ".json" /\ file.parses
                 THEN [how |-> "content", content |-> PrettyJson(file.text)]
                 ELSE [how |-> "content", content |-> file.text]
        ELSE IF fileExtension = ".pdf" THEN
            IF file.readable /\ file.parses
            THEN [how |-> "content", content |-> file.text]
            ELSE [how |-> "skip", content |-> ""]
        ELSE [how |-> "skip", content |-> ""]

(***************************************************************************)
(* loadAndEmbedDocuments, started by startKnowledgeBase at process start   *)
(* and never awaited by the server.                                        *)
(***************************************************************************)
\* await fs.readdir(directoryPath)
ReadDir ==
    /\ loadPc = "readdir"
    /\ loadPc' = IF dirReadable THEN "loading" ELSE "aborted"
    /\ UNCHANGED <<build, files, dirReadable, fileIdx, knowledgeBase, docEmbedCalls>>
    /\ UNCHANGED reqVars

\* bug: the document is stored whatever the embedding is
EmbeddedAlways(values) == TRUE

\* line 89: embedding && embedding.length > 0
Embedded(values) == Len(values) > 0

\* one iteration of the for-loop, its embedContent call included
LoadFile ==
    /\ loadPc = "loading"
    /\ fileIdx <= Len(files)
    /\ LET file == files[fileIdx]
           read == ReadContent(file)
       IN  IF read.how = "throw" THEN
               /\ loadPc' = "aborted"
               /\ UNCHANGED <<fileIdx, knowledgeBase, docEmbedCalls>>
           ELSE IF read.how = "skip" \/ Trim(read.content) = "" THEN
               /\ fileIdx' = fileIdx + 1
               /\ UNCHANGED <<loadPc, knowledgeBase, docEmbedCalls>>
           ELSE \E o \in EmbedOutcomes(DocVectors) :
               /\ docEmbedCalls' = docEmbedCalls \cup {file.name}
               /\ IF o.threw THEN
                      /\ loadPc' = "aborted"
                      /\ UNCHANGED <<fileIdx, knowledgeBase>>
                  ELSE
                      /\ fileIdx' = fileIdx + 1
                      /\ loadPc' = loadPc
                      /\ knowledgeBase' =
                            IF Embedded(o.values)
                            THEN Append(knowledgeBase,
                                        [id |-> file.name, content |-> read.content,
                                         embedding |-> o.values])
                            ELSE knowledgeBase
    /\ UNCHANGED <<build, files, dirReadable>>
    /\ UNCHANGED reqVars

\* the loop is over: "Finished embedding ..."
LoadFinish ==
    /\ loadPc = "loading"
    /\ fileIdx > Len(files)
    /\ loadPc' = "finished"
    /\ UNCHANGED <<build, files, dirReadable, fileIdx, knowledgeBase, docEmbedCalls>>
    /\ UNCHANGED reqVars


(***************************************************************************)
(* JavaScript values that cross the service / controller boundary.         *)
(***************************************************************************)
Undefined      == [kind |-> "undefined"]
JsString(text) == [kind |-> "string", text |-> text]
JsError(text)  == [kind |-> "error", text |-> text]
JsObject(reply, newChatHistory) ==
    [kind |-> "object", reply |-> reply, newChatHistory |-> newChatHistory]

Pending         == [how |-> "pending",  value |-> Undefined]
Returned(value) == [how |-> "returned", value |-> value]
Threw(text)     == [how |-> "threw",    value |-> JsError(text)]

NoResponse == [status |-> 0, json |-> Undefined]

(***************************************************************************)
(* sendGeminiMessage, lines 190-227: validation and composition.           *)
(***************************************************************************)
\* lines 194-201: the message of the Error thrown, "" when none is thrown.
\* Every content of a ChatHistory is a string, so line 199 never throws.
InputError(chatHistory) ==
    IF Len(chatHistory) = 0 THEN "Chat history is empty. Cannot extract user message."
    ELSE IF Len(chatHistory[Len(chatHistory)].parts) = 0
         THEN "No valid user message found in chat history."
         ELSE ""

\* lines 198-202
UserMessage(chatHistory) == chatHistory[Len(chatHistory)].parts[1].text

\* bug: the current message stays in the seed history
HistoryWithCurrentMessage(chatHistory) == chatHistory

\* line 206
HistoryWithoutCurrentMessage(chatHistory) == SubSeq(chatHistory, 1, Len(chatHistory) - 1)

\* line 217, for the documents from position index on
RECURSIVE DocumentBlocks(_, _)
DocumentBlocks(docs, index) ==
    IF index > Len(docs) THEN ""
    ELSE "--- Document " \o ToString(index) \o " (" \o docs[index].id \o ") ---\n"
            \o docs[index].content \o "\n\n" \o DocumentBlocks(docs, index + 1)

\* bug: the header and the trailer are written even without documents
ContextStringAlways(docs) ==
    "Here is some relevant information from the knowledge base:\n\n"
        \o DocumentBlocks(docs, 1)
        \o "Please use the above information to answer the user's question if relevant.\n\n"

\* lines 213-220
ContextString(docs) ==
    IF Len(docs) > 0
    THEN "Here is some relevant information from the knowledge base:\n\n"
            \o DocumentBlocks(docs, 1)
            \o "Please use the above information to answer the user's question if relevant.\n\n"
    ELSE ""

\* lines 223-227
FullHistory(b, context, chatHistory) ==
    generateSystemPrompt(b)
        \o (IF context # "" THEN <<TextContent("user", context)>> ELSE <<>>)
        \o HistoryWithoutCurrentMessage(chatHistory)

(***************************************************************************)
(* The chat turn and what is made of it.                                   *)
(***************************************************************************)
\* chatSession.getHistory() after the turn: the seed, the live user turn and the
\* model's turn (without parts when the model produced no text)
Transcript(p, seed, message) ==
    IF p.emptyTranscript THEN <<>>
    ELSE seed \o << TextContent("user", message),
                    [role |-> "model",
                     parts |-> IF p.text = "" THEN <<>> ELSE <<[text |-> p.text]>>] >>

\* the try / catch of sendGeminiMessage: the value the promise resolves to
ServiceValue(b, p, transcript) ==
    IF p.threw THEN JsString("Error connecting with Gemini")
    ELSE IF b = "raw" THEN JsObject(p.text, transcript)
    ELSE IF p.text = "" \/ Len(transcript) = 0
         THEN JsString("Error connecting with Gemini")
         ELSE JsObject(formatReply(p.text),
                       SliceFrom(formatPartsToMessage(transcript), StripCount))

\* chatWithGemini after sendGeminiMessage resolved with value
ControllerResponse(b, value) ==
    IF b = "raw" THEN
        IF value.kind # "object"
        THEN [status |-> 500, json |-> [message |-> "Unexpected response format from AI."]]
        ELSE IF value.reply = "" \/ Len(value.newChatHistory) = 0
             THEN [status |-> 404, json |-> [message |-> "Failed to get response from AI."]]
             ELSE [status |-> 200, json |-> value]
    ELSE [status |-> 200, json |-> value]

\* chatWithGemini's catch
InternalServerError == [status |-> 500, json |-> [message |-> "Internal Server Error"]]

\* line 7 of the controller
BadRequest(b) == ~ b.isArray \/ Len(b.history) < 1

(***************************************************************************)
(* One chat request.                                                       *)
(***************************************************************************)
\* sendGeminiMessage rejects and chatWithGemini's catch answers
Reject(text) ==
    /\ result' = Threw(text)
    /\ response' = InternalServerError
    /\ pc' = "done"

\* bug: the live turn is sent twice
StartChatTwice(chatHistory, docs) ==
    /\ relevantDocuments' = docs
    /\ contextString' = ContextString(docs)
    /\ fullHistory' = FullHistory(build, ContextString(docs), chatHistory)
    /\ sendCalls' = sendCalls \o <<UserMessage(chatHistory), UserMessage(chatHistory)>>
    /\ pc' = "generating"
    /\ UNCHANGED <<result, response>>

\* lines 213-258: compose the seed, create the session, send the live turn
StartChat(chatHistory, docs) ==
    /\ relevantDocuments' = docs
    /\ contextString' = ContextString(docs)
    /\ fullHistory' = FullHistory(build, ContextString(docs), chatHistory)
    /\ sendCalls' = Append(sendCalls, UserMessage(chatHistory))
    /\ pc' = "generating"
    /\ UNCHANGED <<result, response>>

\* POST /api/chat arrives: the controller, then sendGeminiMessage up to its
\* first provider call
ChatWithGemini ==
    /\ pc = "idle"
    /\ \E b \in Bodies :
        /\ body' = b
        /\ IF BadRequest(b) THEN
               /\ response' = [status |-> 400, json |-> [error |-> "Message is required."]]
               /\ pc' = "done"
               /\ UNCHANGED <<userMessage, kbSeen, similarityCalls, relevantDocuments, contextString, fullHistory,
                              queryEmbedCalls, sendCalls, result>>
           ELSE LET chatHistory == createGeminiHistoryParts(b.history)
                IN  IF InputError(chatHistory) # "" THEN
                        /\ Reject(InputError(chatHistory))
                        /\ UNCHANGED <<userMessage, kbSeen, similarityCalls, relevantDocuments, contextString, fullHistory,
                                       queryEmbedCalls, sendCalls>>
                    ELSE
                        /\ userMessage' = UserMessage(chatHistory)
                        /\ IF KnowledgeBaseEmpty(knowledgeBase) THEN
                               /\ StartChat(chatHistory, <<>>)
                               /\ UNCHANGED <<kbSeen, similarityCalls, queryEmbedCalls>>
                           ELSE
                               /\ queryEmbedCalls' = queryEmbedCalls + 1
                               /\ pc' = "embedding"
                               /\ UNCHANGED <<kbSeen, similarityCalls, relevantDocuments, contextString, fullHistory,
                                              sendCalls, result, response>>
    /\ UNCHANGED <<embedSaid, providerSaid, build>>
    /\ UNCHANGED loadVars

\* the query's embedContent call is over: the rest of findRelevantDocuments,
\* then sendGeminiMessage up to sendMessage
EmbedReturn ==
    /\ pc = "embedding"
    /\ \E o \in EmbedOutcomes(QueryVectors) :
        /\ embedSaid' = o
        /\ LET chatHistory == createGeminiHistoryParts(body.history)
           IN  IF o.threw THEN
                   /\ Reject("embedContent failed")
                   /\ UNCHANGED <<kbSeen, similarityCalls, relevantDocuments, contextString, fullHistory, sendCalls>>
               ELSE IF Len(o.values) = 0 THEN
                   /\ StartChat(chatHistory, <<>>)
                   /\ UNCHANGED <<kbSeen, similarityCalls>>
               ELSE
                   /\ kbSeen' = knowledgeBase
                   /\ similarityCalls' = CosineCalls(o.values, knowledgeBase)
                   /\ IF SimilarityThrows(o.values, knowledgeBase) THEN
                          /\ Reject("Vectors must be of the same length to calculate cosine similarity.")
                          /\ UNCHANGED <<relevantDocuments, contextString, fullHistory, sendCalls>>
                      ELSE StartChat(chatHistory, RelevantDocs(o.values, knowledgeBase, TopN))
    /\ UNCHANGED <<body, userMessage, queryEmbedCalls, providerSaid, build>>
    /\ UNCHANGED loadVars

\* the chat-completion call is over: the end of sendGeminiMessage and of the
\* controller
ProviderReturn ==
    /\ pc = "generating"
    /\ \E p \in ProviderOutcomes :
        /\ providerSaid' = p
        /\ LET value == ServiceValue(build, p, Transcript(p, fullHistory, userMessage))
           IN  /\ result' = Returned(value)
               /\ response' = ControllerResponse(build, value)
    /\ pc' = "done"
    /\ UNCHANGED <<body, userMessage, kbSeen, similarityCalls, relevantDocuments, contextString, fullHistory,
                   queryEmbedCalls, embedSaid, sendCalls, build>>
    /\ UNCHANGED loadVars

(***************************************************************************)
(* The system.                                                             *)
(***************************************************************************)
Init ==
    /\ build \in Builds
    /\ dirReadable \in BOOLEAN
    /\ files \in (IF dirReadable THEN Directories ELSE {<<>>})
    /\ loadPc = "readdir"
    /\ fileIdx = 1
    /\ knowledgeBase = <<>>
    /\ docEmbedCalls = {}
    /\ pc = "idle"
    /\ body = [isArray |-> FALSE, history |-> <<>>]
    /\ userMessage = ""
    /\ kbSeen = <<>>
    /\ similarityCalls = <<>>
    /\ relevantDocuments = <<>>
    /\ contextString = ""
    /\ fullHistory = <<>>
    /\ queryEmbedCalls = 0
    /\ embedSaid = [threw |-> FALSE, values |-> <<>>]
    /\ sendCalls = <<>>
    /\ providerSaid = [threw |-> FALSE, text |-> "", emptyTranscript |-> FALSE]
    /\ result = Pending
    /\ response = NoResponse

Next ==
    \/ ReadDir
    \/ LoadFile
    \/ LoadFinish
    \/ ChatWithGemini
    \/ EmbedReturn
    \/ ProviderReturn

Spec == Init /\ [][Next]_vars

(***************************************************************************)
(* The server once loadAndEmbedDocuments has finished on a directory of    *)
(* markdown files that all embedded: the knowledge base is read-only and   *)
(* holds one document per file, in the order of the listing.               *)
(***************************************************************************)
LoadedVectors == {<<1, 1, 0>>, <<2, 1, 0>>, <<1, 0, 1>>}

\* the knowledge base loadAndEmbedDocuments leaves when file i embeds to vectors[i]
LoadedKnowledgeBase(vectors) ==
    [i \in 1..Len(vectors) |->
        [id |-> MdFile(i).name, content |-> MdFile(i).text, embedding |-> vectors[i]]]

InitLoaded ==
    /\ build \in Builds
    /\ dirReadable = TRUE
    /\ \E vectors \in SeqsUpTo(LoadedVectors, MaxDocs) :
          /\ files = MdDir(Len(vectors))
          /\ fileIdx = Len(vectors) + 1
          /\ knowledgeBase = LoadedKnowledgeBase(vectors)
          /\ docEmbedCalls = {MdFile(i).name : i \in 1..Len(vectors)}
    /\ loadPc = "finished"
    /\ pc = "idle"
    /\ body = [isArray |-> FALSE, history |-> <<>>]
    /\ userMessage = ""
    /\ kbSeen = <<>>
    /\ similarityCalls = <<>>
    /\ relevantDocuments = <<>>
    /\ contextString = ""
    /\ fullHistory = <<>>
    /\ queryEmbedCalls = 0
    /\ embedSaid = [threw |-> FALSE, values |-> <<>>]
    /\ sendCalls = <<>>
    /\ providerSaid = [threw |-> FALSE, text |-> "", emptyTranscript |-> FALSE]
    /\ result = Pending
    /\ response = NoResponse

NextLoaded ==
    \/ ChatWithGemini
    \/ EmbedReturn
    \/ ProviderReturn

SpecLoaded == InitLoaded /\ [][NextLoaded]_vars


(***************************************************************************)
(* Vocabulary of the properties.                                           *)
(***************************************************************************)
\* a history the service is meant to accept
ValidHistory(h) ==
    /\ Len(h) >= 1
    /\ h[Len(h)].role = "user"
    /\ h[Len(h)].content # ""

\* sendGeminiMessage was entered for the request
ServiceEntered == pc # "idle" /\ ~ BadRequest(body)

\* the session was created and the live turn sent
ChatStarted == pc \in {"generating", "done"} /\ Len(sendCalls) > 0

\* the chat-completion call is over
ChatOver == pc = "done" /\ Len(sendCalls) > 0

\* the provider answered with a reply text and the session's transcript
SuccessfulReply(p) == ~ p.threw /\ p.text # "" /\ ~ p.emptyTranscript

\* the query's embedContent call is over
EmbedOver == pc \in {"generating", "done"} /\ queryEmbedCalls > 0

\* the messages the service makes up itself, in both shapes
ContextMessage == TextContent("user", contextString)
SyntheticContents ==
    {generateSystemPrompt(build)[1], generateSystemPrompt(build)[2]}
        \cup (IF contextString # "" THEN {ContextMessage} ELSE {})
SyntheticMessages == {formatContent(c) : c \in SyntheticContents}

\* cos(a, b) > 1/2, over the reals
CosAboveHalf(a, b) ==
    /\ Len(a) = Len(b)
    /\ DotProduct(a, b) > 0
    /\ 4 * DotProduct(a, b) * DotProduct(a, b) > DotProduct(a, a) * DotProduct(b, b)

\* position of the document with this id in a list of documents
PositionOf(id, docs) == CHOOSE i \in 1..Len(docs) : docs[i].id = id


(***************************************************************************)
(* C1: for every valid input history H and every successful provider reply,*)
(* the history sendGeminiMessage returns is H followed by exactly one new  *)
(* model message carrying the reply, whether or not a context message was  *)
(* injected.                                                               *)
(***************************************************************************)
C1_ReturnedHistoryExtendsInput ==
    (ChatOver /\ ValidHistory(body.history) /\ SuccessfulReply(providerSaid))
        => /\ result.how = "returned"
           /\ result.value.kind = "object"
           /\ result.value.newChatHistory
                = Append(body.history, [role |-> "model", content |-> providerSaid.text])

(***************************************************************************)
(* C2: the history returned to the caller never contains a synthetic       *)
(* message: not the system instruction, not the model acknowledgment, not  *)
(* the injected context message.  (Stated for the histories the service   *)
(* is meant to accept.)                                                    *)
(***************************************************************************)
C2_NoSyntheticMessageReturned ==
    (ChatOver /\ ValidHistory(body.history)
        /\ result.how = "returned" /\ result.value.kind = "object")
        => \A i \in 1..Len(result.value.newChatHistory) :
              result.value.newChatHistory[i] \notin SyntheticContents \cup SyntheticMessages

(***************************************************************************)
(* C3: sendGeminiMessage rejects with an input error, before any call to   *)
(* the embedding provider or the chat-completion provider, whenever the    *)
(* history is empty, or its last message is not a user message, or its     *)
(* last message has empty content.                                         *)
(***************************************************************************)
C3_InvalidHistoryRejected ==
    /\ InputError(createGeminiHistoryParts(<<>>)) # ""
    /\ (ServiceEntered /\ ~ ValidHistory(body.history))
          => /\ queryEmbedCalls = 0
             /\ sendCalls = <<>>
             /\ result.how = "threw"


(***************************************************************************)
(* C4: for every valid history the seed history passed to the chat session *)
(* is the one instruction pair, then at most one context message, then the *)
(* caller's messages except the last, in their order; the last caller      *)
(* message is not in the seed and is sent exactly once as the live turn.   *)
(***************************************************************************)
C4_SeedHistoryShape ==
    (ChatStarted /\ ValidHistory(body.history)) =>
        LET h == body.history
            n == Len(h) - 1
            k == Len(fullHistory) - n
        IN  /\ k \in {2, 3}
            /\ fullHistory[1] = [role |-> "user",
                                 parts |-> <<[text |-> ModelInstructions(build)]>>]
            /\ fullHistory[2] = [role |-> "model",
                                 parts |-> <<[text |-> ModelAcknowledgment(build)]>>]
            /\ (k = 3) => (contextString # "" /\ fullHistory[3] = ContextMessage)
            /\ \A i \in 1..n :
                  fullHistory[k + i] = [role |-> h[i].role, parts |-> <<[text |-> h[i].content]>>]
            /\ sendCalls = <<h[Len(h)].content>>

\* a two-message valid history composed with a context message
C4_Witness ==
    /\ ChatStarted
    /\ ValidHistory(body.history)
    /\ Len(body.history) = 2
    /\ relevantDocuments # <<>>
    /\ Len(fullHistory) = 4

(***************************************************************************)
(* C5: when findRelevantDocuments returns no documents, the context string *)
(* is empty and the seed history holds no context message: it is the       *)
(* instruction pair followed directly by the prior history.                *)
(***************************************************************************)
C5_NoContextWithoutDocuments ==
    (ChatStarted /\ relevantDocuments = <<>>) =>
        /\ contextString = ""
        /\ fullHistory = generateSystemPrompt(build)
                            \o createGeminiHistoryParts(
                                  SubSeq(body.history, 1, Len(body.history) - 1))

\* the corpus was searched with a query vector and nothing passed the floor
C5_Witness ==
    /\ ChatStarted
    /\ relevantDocuments = <<>>
    /\ EmbedOver
    /\ embedSaid.values # <<>>
    /\ kbSeen # <<>>
    /\ Len(body.history) = 2

(***************************************************************************)
(* C6: no document whose cosine similarity to the query is at or below 0.5 *)
(* is in the output of findRelevantDocuments, even when fewer than topN    *)
(* documents exceed the floor.                                             *)
(***************************************************************************)
C6_NothingAtOrBelowFloor ==
    ChatStarted =>
        \A i \in 1..Len(relevantDocuments) :
            /\ EmbedOver
            /\ CosAboveHalf(embedSaid.values, relevantDocuments[i].embedding)

\* a document exactly at the floor was left out, fewer than topN were returned
C6_Witness ==
    /\ ChatStarted
    /\ Len(relevantDocuments) \in 1..(TopN - 1)
    /\ \E i \in 1..Len(kbSeen) :
          LET d == kbSeen[i].embedding
              q == embedSaid.values
          IN  /\ Len(d) = Len(q)
              /\ DotProduct(q, d) > 0
              /\ 4 * DotProduct(q, d) * DotProduct(q, d) = DotProduct(q, q) * DotProduct(d, d)
              /\ \A j \in 1..Len(relevantDocuments) : relevantDocuments[j].id # kbSeen[i].id

(***************************************************************************)
(* C7: when the knowledge base holds no embedded documents,                *)
(* findRelevantDocuments returns an empty list and the embedding provider  *)
(* is not called for that query.  (The knowledge base only grows, so it    *)
(* was empty at the call if it is empty now.)                              *)
(***************************************************************************)
C7_EmptyCorpusNoEmbedCall ==
    (ServiceEntered /\ Len(knowledgeBase) = 0) =>
        /\ queryEmbedCalls = 0
        /\ relevantDocuments = <<>>
        /\ pc # "embedding"

\* the chat goes on after a search of the empty knowledge base
C7_Witness ==
    /\ pc = "generating"
    /\ Len(knowledgeBase) = 0
    /\ queryEmbedCalls = 0
    /\ relevantDocuments = <<>>

(***************************************************************************)
(* C8: the output of findRelevantDocuments is ordered by similarity,       *)
(* descending, and two returned documents of identical similarity are in   *)
(* the order in which they were inserted into the knowledge base.          *)
(***************************************************************************)
C8_RankedDescendingStable ==
    (ChatStarted /\ relevantDocuments # <<>>) =>
        \A i, j \in 1..Len(relevantDocuments) :
            i < j =>
                LET si == cosineSimilarity(embedSaid.values, relevantDocuments[i].embedding)
                    sj == cosineSimilarity(embedSaid.values, relevantDocuments[j].embedding)
                IN  /\ si.num * sj.den >= sj.num * si.den
                    /\ (si.num * sj.den = sj.num * si.den)
                          => PositionOf(relevantDocuments[i].id, kbSeen)
                                < PositionOf(relevantDocuments[j].id, kbSeen)

\* three documents returned: a tie, and a strictly lower one that was inserted first
C8_Witness ==
    /\ ChatStarted
    /\ Len(relevantDocuments) = 3
    /\ LET s(i) == cosineSimilarity(embedSaid.values, relevantDocuments[i].embedding)
       IN  /\ Equal(s(1), s(2))
           /\ Less(s(3), s(1))
           /\ PositionOf(relevantDocuments[3].id, kbSeen) = 1


(***************************************************************************)
(* C9: whenever the chat-completion call throws or returns an empty reply  *)
(* or an empty transcript, sendGeminiMessage fails with a provider error:  *)
(* it never completes with a normal return value, and no reply or updated  *)
(* history reaches the caller for that request.  (Stated for the histories *)
(* the service is meant to accept.)                                        *)
(***************************************************************************)
C9_ProviderFailureFails ==
    (ChatOver /\ ValidHistory(body.history) /\ ~ SuccessfulReply(providerSaid)) =>
        /\ result.how = "threw"
        /\ response.status # 200

(***************************************************************************)
(* C10: if embedding the query fails (the embedding provider throws or     *)
(* returns no vector) while the corpus is not empty, sendGeminiMessage     *)
(* still goes on to the chat-completion call with no context message, and  *)
(* the embedding failure is never reported to the caller as an error.      *)
(* (Stated for the histories the service is meant to accept.)              *)
(***************************************************************************)
C10_EmbedFailureDegrades ==
    (pc \in {"generating", "done"} /\ queryEmbedCalls > 0
        /\ ValidHistory(body.history)
        /\ (embedSaid.threw \/ embedSaid.values = <<>>)) =>
        /\ Len(sendCalls) = 1
        /\ contextString = ""
        /\ result.how # "threw"

(***************************************************************************)
(* Vocabulary of the ingestion and retrieval claims.                       *)
(***************************************************************************)
\* loadAndEmbedDocuments has returned
LoadOver == loadPc \in {"finished", "aborted"}

\* reading the file gives text that goes to the embedding provider
Embeddable(file) ==
    /\ file.readable
    /\ ToLowerCase(file.ext) \in {".md", ".json"}
          \/ (ToLowerCase(file.ext) = ".pdf" /\ file.parses)
    /\ Trim(file.text) # ""

\* a PDF whose text extraction fails
PdfFails(file) == ToLowerCase(file.ext) = ".pdf" /\ file.readable /\ ~ file.parses

\* a vector of zero magnitude
ZeroMagnitude(vec) == \A i \in 1..Len(vec) : vec[i] = 0

\* a is a prefix of b
IsPrefix(a, b) == Len(a) <= Len(b) /\ SubSeq(b, 1, Len(a)) = a

\* the similarity search ran on a query vector
Searched == EmbedOver /\ ~ embedSaid.threw /\ embedSaid.values # <<>>

\* the documents of kbSeen whose logged similarity is above 0.5
AboveFloorPositions ==
    {i \in 1..Len(similarityCalls) :
        /\ ~ similarityCalls[i].threw
        /\ 4 * similarityCalls[i].value.num > similarityCalls[i].value.den}

(***************************************************************************)
(* C11: when the embedding provider throws or returns an empty result for  *)
(* one file during loadAndEmbedDocuments, only that file is skipped: once  *)
(* ingestion is over, every file of the directory that has text was still  *)
(* read and submitted for embedding.  (Stated for directories whose files  *)
(* can all be read.)                                                       *)
(***************************************************************************)
C11_EmbedFailureSkipsOnlyThatFile ==
    (LoadOver /\ dirReadable /\ \A i \in 1..Len(files) : files[i].readable) =>
        \A i \in 1..Len(files) :
            Embeddable(files[i]) => files[i].name \in docEmbedCalls

(***************************************************************************)
(* C12: a PDF whose text extraction fails is skipped: the embedding        *)
(* provider is never called for it, it is not stored, ingestion does not   *)
(* end at it, and the other files are still ingested whatever its position *)
(* (one markdown file plus one corrupt PDF gives a corpus of size 1 when   *)
(* the markdown file embeds).                                              *)
(***************************************************************************)
C12_CorruptPdfSkipped ==
    /\ \A i \in 1..Len(files) :
          PdfFails(files[i]) =>
              /\ files[i].name \notin docEmbedCalls
              /\ \A k \in 1..Len(knowledgeBase) : knowledgeBase[k].id # files[i].name
              /\ ~ (loadPc = "aborted" /\ fileIdx = i)
              /\ (loadPc = "loading" /\ fileIdx = i) => ENABLED LoadFile
    /\ (loadPc = "finished"
          /\ files \in {<<MdFile(1), CorruptPdf>>, <<CorruptPdf, MdFile(1)>>}) =>
          /\ docEmbedCalls = {MdFile(1).name}
          /\ Len(knowledgeBase) <= 1
          /\ \A k \in 1..Len(knowledgeBase) :
                /\ knowledgeBase[k].id = MdFile(1).name
                /\ knowledgeBase[k].content = MdFile(1).text

\* the corrupt PDF comes first and the markdown file after it is ingested
C12_Witness ==
    /\ loadPc = "finished"
    /\ files = <<CorruptPdf, MdFile(1)>>
    /\ Len(knowledgeBase) = 1
    /\ docEmbedCalls = {"doc1.md"}

(***************************************************************************)
(* C13: the chat endpoint answers 400 exactly when history is missing, not *)
(* an array, or empty; it answers 500 for every internal or provider       *)
(* failure, a provider that throws or returns an empty reply included; and *)
(* a 200 response always carries a body of the shape                       *)
(* {reply, newChatHistory}.  (Stated for the histories the service is      *)
(* meant to accept.)                                                       *)
(***************************************************************************)
C13_StatusCodes ==
    (pc = "done" /\ (BadRequest(body) \/ ValidHistory(body.history))) =>
        /\ (response.status = 400) <=> BadRequest(body)
        /\ (result.how = "threw") => response.status = 500
        /\ (ChatOver /\ (providerSaid.threw \/ providerSaid.text = ""))
              => response.status = 500
        /\ (response.status = 200) => response.json.kind = "object"

(***************************************************************************)
(* C14, as the claim states it: every cosineSimilarity call in which at    *)
(* least one vector has zero magnitude returns exactly 0 without throwing. *)
(***************************************************************************)
C14_ZeroMagnitudeGivesZero ==
    \A i \in 1..Len(similarityCalls) :
        (ZeroMagnitude(similarityCalls[i].vecA) \/ ZeroMagnitude(similarityCalls[i].vecB)) =>
            /\ ~ similarityCalls[i].threw
            /\ similarityCalls[i].value = Zero

(***************************************************************************)
(* C14, amended: every cosineSimilarity call on two vectors of the same    *)
(* length, at least one of which has zero magnitude, returns exactly 0     *)
(* without throwing (on vectors of different lengths the length check      *)
(* comes first and throws).                                                *)
(***************************************************************************)
C14_ZeroMagnitudeSameLengthGivesZero ==
    \A i \in 1..Len(similarityCalls) :
        (/\ Len(similarityCalls[i].vecA) = Len(similarityCalls[i].vecB)
         /\ ZeroMagnitude(similarityCalls[i].vecA) \/ ZeroMagnitude(similarityCalls[i].vecB)) =>
            /\ ~ similarityCalls[i].threw
            /\ similarityCalls[i].value = Zero

\* a zero query vector was compared with a stored vector of its length
C14_Witness ==
    /\ Searched
    /\ \E i \in 1..Len(similarityCalls) :
          /\ ZeroMagnitude(similarityCalls[i].vecA)
          /\ ~ ZeroMagnitude(similarityCalls[i].vecB)
          /\ Len(similarityCalls[i].vecA) = Len(similarityCalls[i].vecB)
    /\ ~ \E i \in 1..Len(similarityCalls) : similarityCalls[i].threw
    /\ relevantDocuments = <<>>
    /\ ChatStarted

(***************************************************************************)
(* C15: if a stored document's embedding has a different length than the   *)
(* query embedding, findRelevantDocuments skips only that document and     *)
(* still ranks and returns the other documents; the mismatch never makes   *)
(* the request fail.  (Stated for the histories the service is meant to    *)
(* accept.)                                                                *)
(***************************************************************************)
C15_LengthMismatchSkipsOnlyThatDocument ==
    (/\ Searched
     /\ ValidHistory(body.history)
     /\ \E i \in 1..Len(kbSeen) : Len(kbSeen[i].embedding) # Len(embedSaid.values)) =>
        /\ result.how # "threw"
        /\ response.status # 500
        /\ Len(sendCalls) = 1
        /\ relevantDocuments =
              RelevantDocs(embedSaid.values,
                           SelectSeq(kbSeen,
                                     LAMBDA d : Len(d.embedding) = Len(embedSaid.values)),
                           TopN)

(***************************************************************************)
(* C16: a chat request handled while loadAndEmbedDocuments is running      *)
(* never waits for it (each of its steps can be taken whatever the loop is *)
(* doing); the documents it searches are a prefix of the knowledge base at *)
(* every later moment, the final corpus included; every stored document    *)
(* has a non-empty embedding; what it returns is the ranking of exactly    *)
(* those documents; and it is answered 200 whenever its own provider calls *)
(* and its similarity computations succeed.                                *)
(***************************************************************************)
C16_RequestDuringIngestion ==
    /\ IsPrefix(kbSeen, knowledgeBase)
    /\ \A i \in 1..Len(knowledgeBase) : Len(knowledgeBase[i].embedding) > 0
    /\ (~ LoadOver) =>
          /\ (pc = "idle") => ENABLED ChatWithGemini
          /\ (pc = "embedding") => ENABLED EmbedReturn
          /\ (pc = "generating") => ENABLED ProviderReturn
    /\ (Searched /\ ChatStarted) =>
          relevantDocuments = RelevantDocs(embedSaid.values, kbSeen, TopN)
    /\ (/\ pc = "done"
        /\ ValidHistory(body.history)
        /\ ~ embedSaid.threw
        /\ \A i \in 1..Len(similarityCalls) : ~ similarityCalls[i].threw
        /\ SuccessfulReply(providerSaid)) => response.status = 200

\* the request searched one document, a second one was appended while the
\* request waited for the reply, and the answer came before the loop ended
C16_Witness ==
    /\ pc = "done"
    /\ loadPc = "loading"
    /\ fileIdx <= Len(files)
    /\ Len(kbSeen) = 1
    /\ Len(knowledgeBase) = 2
    /\ relevantDocuments # <<>>
    /\ response.status = 200

(***************************************************************************)
(* C17: findRelevantDocuments returns at most topN documents (3), distinct *)
(* documents of the corpus that are all above the similarity floor, as     *)
(* many as topN allows, and no document left out that is above the floor   *)
(* has a strictly higher similarity than a document returned.              *)
(***************************************************************************)
C17_TopNHighestAboveFloor ==
    (ChatStarted /\ Searched) =>
        LET returned == {PositionOf(relevantDocuments[k].id, kbSeen) :
                            k \in 1..Len(relevantDocuments)}
        IN  /\ Len(relevantDocuments) <= TopN
            /\ Cardinality(returned) = Len(relevantDocuments)
            /\ \A k \in 1..Len(relevantDocuments) :
                  relevantDocuments[k] = kbSeen[PositionOf(relevantDocuments[k].id, kbSeen)]
            /\ returned \subseteq AboveFloorPositions
            /\ Len(relevantDocuments) =
                  (IF Cardinality(AboveFloorPositions) < TopN
                   THEN Cardinality(AboveFloorPositions) ELSE TopN)
            /\ \A i \in AboveFloorPositions \ returned : \A j \in returned :
                  ~ Less(similarityCalls[j].value, similarityCalls[i].value)

\* more than topN documents are above the floor and one with a strictly
\* lower similarity than every returned one is left out
C17_Witness ==
    /\ ChatStarted
    /\ Searched
    /\ Len(relevantDocuments) = TopN
    /\ Cardinality(AboveFloorPositions) > TopN
    /\ \E i \in AboveFloorPositions :
          \A k \in 1..Len(relevantDocuments) :
              /\ relevantDocuments[k].id # kbSeen[i].id
              /\ Less(similarityCalls[i].value,
                      similarityCalls[PositionOf(relevantDocuments[k].id, kbSeen)].value)

(***************************************************************************)
(* C18: within one request the provider calls are sequential: no           *)
(* chat-completion send is made while the query's embedding call is        *)
(* outstanding, a send that follows an embedding call follows its return,  *)
(* and a request makes at most one embedding call and at most one send.    *)
(***************************************************************************)
C18_ProviderCallsSequential ==
    /\ queryEmbedCalls <= 1
    /\ Len(sendCalls) <= 1
    /\ (pc = "embedding") => (queryEmbedCalls = 1 /\ sendCalls = <<>>)
    /\ (pc = "generating") => Len(sendCalls) = 1
    /\ (queryEmbedCalls = 1 /\ sendCalls # <<>>) => ~ embedSaid.threw

\* a request that made both calls and was answered
C18_Witness ==
    /\ pc = "done"
    /\ queryEmbedCalls = 1
    /\ Len(sendCalls) = 1
    /\ embedSaid.values # <<>>
    /\ response.status = 200

====
